---- MODULE Spec2Model ----
(***************************************************************************)
(* A model of noted: the SQL statement builder and its fragments, the type *)
(* mapping, the Model record class with its store, the cached connection   *)
(* provider (src/noted/sql.py) and split_entry (src/noted/core.py).        *)
(*                                                                         *)
(* Text is a sequence of lexemes (short strings that are never split), so  *)
(* ''.join is sequence concatenation.  A Python value is a record          *)
(* [t, i, s]: t its Python type, i its integer payload, s its text.        *)
(***************************************************************************)
EXTENDS Integers, Sequences, FiniteSets, TLC

VARIABLES
    builder,    \* SQLBuilder: [sql_buffer, param_buffer]
    added,      \* the fragments handed to add(), in call order
    built,      \* the last result of build(): [done, sql, params]
    typ,        \* the argument of the last type_to_sql_type call
    sql_type,   \* its result
    schema,     \* cls.name and cls.fields of the class create_table ran on
    ddl,        \* the statement create_table built: [done, sql, params]
    created,    \* the store: does the table exist
    rows,       \* the store: rowid -> stored column values
    rec,        \* the Model instance in hand: [live, rowid, vals]
    last,       \* the last call on the record model: what it was given, the
                \* record's rowid and the stored rows before it, how it ended
    queried,    \* the records the last call yielded, if it was query()
    cached,     \* get_conn._conn: a connection id, or NoConn
    conns,      \* every connection opened so far: id -> [st, db]
    config,     \* the configuration: [file] on disk, [conf] as get_config keeps it
    access,     \* the last get_conn() call and how it ended
    entry,      \* the argument of split_entry
    split       \* its result: [done, title, body]

builderVars == <<builder, added, built>>
ddlVars == <<typ, sql_type, schema, ddl>>
storeVars == <<created, rows, rec, last, queried>>
connVars == <<cached, conns, config, access>>
splitVars == <<entry, split>>
vars == <<builder, added, built, typ, sql_type, schema, ddl, created, rows, rec,
          last, queried, cached, conns, config, access, entry, split>>

----------------------------------------------------------------------------
(* Python values *)

None == [t |-> "None", i |-> 0, s |-> <<>>]
PyInt(n) == [t |-> "int", i |-> n, s |-> <<>>]
PyStr(x) == [t |-> "str", i |-> 0, s |-> x]

----------------------------------------------------------------------------
(* Sequence helpers *)

RECURSIVE Join(_)
\* ''.join(parts) for a list of texts
Join(parts) == IF parts = <<>> THEN <<>> ELSE Head(parts) \o Join(Tail(parts))

Range(q) == {q[k] : k \in 1..Len(q)}

RECURSIVE CountOf(_, _)
CountOf(x, q) ==
    IF q = <<>> THEN 0
    ELSE (IF Head(q) = x THEN 1 ELSE 0) + CountOf(x, Tail(q))

----------------------------------------------------------------------------
(* SQL fragments: RawSQL, Identifier, Literal, PList, List *)

NoVal == None

RawSQL(sql) ==
    [kind |-> "raw", input |-> sql, val |-> NoVal, items |-> <<>>,
     prefix |-> <<>>, postfix |-> <<>>]
Identifier(ident) ==
    [kind |-> "ident", input |-> ident, val |-> NoVal, items |-> <<>>,
     prefix |-> <<>>, postfix |-> <<>>]
Literal(lit) ==
    [kind |-> "lit", input |-> <<>>, val |-> lit, items |-> <<>>,
     prefix |-> <<>>, postfix |-> <<>>]
PList(objects) ==
    [kind |-> "list", input |-> <<>>, val |-> NoVal, items |-> objects,
     prefix |-> <<"(">>, postfix |-> <<")">>]
List(objects) ==
    [kind |-> "list", input |-> <<>>, val |-> NoVal, items |-> objects,
     prefix |-> <<>>, postfix |-> <<>>]
\* a nested builder used as a fragment (create_table's column definitions)
SubBuilder(objects) ==
    [kind |-> "builder", input |-> <<>>, val |-> NoVal, items |-> objects,
     prefix |-> <<>>, postfix |-> <<>>]

RECURSIVE EscapeQuotes(_)
\* re.sub(r'"', '\\"', input)
EscapeQuotes(ident) ==
    IF ident = <<>> THEN <<>>
    ELSE (IF Head(ident) = "\"" THEN <<"\\", "\"">> ELSE <<Head(ident)>>)
         \o EscapeQuotes(Tail(ident))

RawSQL_build(f) == [sql |-> f.input, params |-> <<>>]

Identifier_build(f) ==
    [sql |-> <<"\"">> \o EscapeQuotes(f.input) \o <<"\"">>, params |-> <<>>]

Literal_build_inlined(f) == [sql |-> f.val.s, params |-> <<>>]

Literal_build(f) == [sql |-> <<"?">>, params |-> <<f.val>>]

SQLBuilder_init(sql) == [sql_buffer |-> <<sql>>, param_buffer |-> <<>>]

\* the body of SQLBuilder.add once obj.build() has returned r
AddBuilt(b, r) ==
    [sql_buffer |-> Append(b.sql_buffer, r.sql),
     param_buffer |-> b.param_buffer \o r.params]

SQLBuilder_build(b) == [sql |-> Join(b.sql_buffer), params |-> b.param_buffer]

RECURSIVE Build(_)
RECURSIVE PList_build_loop(_, _, _)
RECURSIVE AddAll(_, _)

SQLBuilder_add(b, obj) == AddBuilt(b, Build(obj))

\* the for loop of PList.build, from index k (0-based i = k - 1)
PList_build_loop(b, objs, k) ==
    IF k > Len(objs) THEN b
    ELSE LET b1 == IF k - 1 # 0 THEN SQLBuilder_add(b, RawSQL(<<", ">>)) ELSE b
         IN PList_build_loop(SQLBuilder_add(b1, objs[k]), objs, k + 1)

PList_build(f) ==
    SQLBuilder_build(
        SQLBuilder_add(PList_build_loop(SQLBuilder_init(f.prefix), f.items, 1),
                      RawSQL(f.postfix)))

\* a chain SQLBuilder().add(o1).add(o2)...
AddAll(b, objs) ==
    IF objs = <<>> THEN b ELSE AddAll(SQLBuilder_add(b, Head(objs)), Tail(objs))

\* obj.build(), dispatched on the class of obj
Build(f) ==
    CASE f.kind = "raw" -> RawSQL_build(f)
      [] f.kind = "ident" -> Identifier_build(f)
      [] f.kind = "lit" -> Literal_build(f)
      [] f.kind = "list" -> PList_build(f)
      [] f.kind = "builder" -> SQLBuilder_build(AddAll(SQLBuilder_init(<<>>), f.items))

----------------------------------------------------------------------------
(* The statement builder driven by its public methods *)

NotBuilt == [done |-> FALSE, sql |-> <<>>, params |-> <<>>]

InitialSqls == {<<>>, <<"SELECT ">>}

RawTexts == {<<" FROM ">>, <<" WHERE rowid = ">>}
IdentNames == {<<"title">>, <<"a", "\"", "b">>}
LiteralValues == {None, PyInt(3), PyStr(<<"x'; DROP TABLE t; --">>)}

\* fragments handed to add(): leaves, lists, and lists nested in lists
Fragments ==
    {RawSQL(<<" = ">>),
     Identifier(<<"t\"">>),
     Literal(PyStr(<<"v?">>)),
     PList(<<>>),
     PList(<<Literal(PyInt(9)), Literal(None)>>),
     List(<<Identifier(<<"rowid">>), Identifier(<<"title">>)>>),
     PList(<<Literal(PyStr(<<"p">>)),
             List(<<Identifier(<<"c">>), Literal(PyStr(<<"q">>))>>),
             PList(<<Literal(PyInt(1))>>)>>),
     SubBuilder(<<Identifier(<<"count">>), RawSQL(<<" ">>),
                  Literal(PyInt(7))>>)}

MaxAdds == 3

AddStep(obj) ==
    /\ Len(added) < MaxAdds
    /\ builder' = SQLBuilder_add(builder, obj)
    /\ added' = Append(added, obj)
    /\ built' = NotBuilt

Add == \E obj \in Fragments : AddStep(obj)
AddSql == \E sql \in RawTexts : AddStep(RawSQL(sql))
AddIdentifier == \E ident \in IdentNames : AddStep(Identifier(ident))
AddLiteral == \E lit \in LiteralValues : AddStep(Literal(lit))

DoBuild ==
    /\ built = NotBuilt
    /\ built' = [done |-> TRUE] @@ SQLBuilder_build(builder)
    /\ UNCHANGED <<builder, added>>

----------------------------------------------------------------------------
(* Types: the classes a schema may name, and issubclass *)

\* the six semantic types of the schema language
SemanticTypes == {"int", "float", "str", "bytes", "date", "datetime"}
\* a subclass of int, and a class none of the branches accepts
OtherTypes == {"bool", "list"}
Types == SemanticTypes \cup OtherTypes

\* the classes in the method resolution order of class c (object left out)
Mro(c) ==
    CASE c = "bool" -> {"bool", "int"}
      [] c = "datetime" -> {"datetime", "date"}
      [] OTHER -> {c}

issubclass(c, base) == base \in Mro(c)

\* the None a function returns by falling off its end
NoSqlType == "<None>"

type_to_sql_type(t) ==
    IF issubclass(t, "int") THEN "INTEGER"
    ELSE IF issubclass(t, "float") THEN "DOUBLE"
    ELSE IF issubclass(t, "str") THEN "TEXT"
    ELSE IF issubclass(t, "bytes") THEN "BLOB"
    ELSE IF issubclass(t, "date") THEN "DATE"
    ELSE IF issubclass(t, "datetime") THEN "DATETIME"
    ELSE NoSqlType

----------------------------------------------------------------------------
(* Model.create_table *)

RECURSIVE create_table_fields(_)
\* the list `fields` the for loop of create_table collects
create_table_fields(fields) ==
    IF fields = <<>> THEN <<>>
    ELSE LET field == Head(fields).name
             st == type_to_sql_type(Head(fields).typ)
         IN <<IF st # NoSqlType
              THEN SubBuilder(<<Identifier(field), RawSQL(<<" ">>),
                                Identifier(<<st>>)>>)
              ELSE Identifier(field)>>
            \o create_table_fields(Tail(fields))

create_table_no_types(name, fields) ==
    SQLBuilder_build(
        AddAll(SQLBuilder_init(<<"CREATE VIRTUAL TABLE IF NOT EXISTS ">>),
               <<Identifier(name), RawSQL(<<" USING fts4">>),
                 PList([k \in 1..Len(fields) |-> Identifier(fields[k].name)])>>))

\* the builder create_table executes, built
create_table_sql(name, fields) ==
    SQLBuilder_build(
        AddAll(SQLBuilder_init(<<"CREATE VIRTUAL TABLE IF NOT EXISTS ">>),
               <<Identifier(name), RawSQL(<<" USING fts4">>),
                 PList(create_table_fields(fields))>>))

MaxFields == 2

TableNames == {<<"journal">>, <<"my", "\"", "t">>}
\* the k-th declared field is named FieldNamePool[k]: dict keys are distinct
FieldNamePool == <<<<"title">>, <<"count">>, <<"a", "\"", "b">>, <<"body">>>>

Schemas ==
    UNION {[1..n -> Types] : n \in 1..MaxFields}

NoDDL == [done |-> FALSE, sql |-> <<>>, params |-> <<>>]
NoSchema == [name |-> <<>>, fields |-> <<>>]

TypeToSqlType ==
    \E t \in Types :
        /\ typ' = t
        /\ sql_type' = type_to_sql_type(t)
        /\ UNCHANGED <<schema, ddl>>

BuildCreateTable ==
    \E name \in TableNames, ts \in Schemas :
        LET fields == [k \in 1..Len(ts) |->
                          [name |-> FieldNamePool[k], typ |-> ts[k]]]
        IN /\ ~ddl.done
           /\ schema' = [name |-> name, fields |-> fields]
           /\ ddl' = [done |-> TRUE] @@ create_table_sql(name, fields)
           /\ UNCHANGED <<typ, sql_type>>

----------------------------------------------------------------------------
(* Dates: a date is day d, a datetime is 2 * d + h (h = 0 midnight, 1 noon) *)

PyDate(d) == [t |-> "date", i |-> d, s |-> <<>>]
PyDateTime(d, h) == [t |-> "datetime", i |-> 2 * d + h, s |-> <<>>]

IsoDays == <<"2020-01-01", "2020-01-02", "2020-01-03">>
IsoTimes == <<"00:00:00", "12:00:00">>

\* the exception a call ended with, carried in place of its result
Raised(exc) == [t |-> "raise", i |-> 0, s |-> <<exc>>]
IsRaised(v) == v.t = "raise"

\* sqlite3's default adapters: date.isoformat(), datetime.isoformat(" ")
adapt(v) ==
    CASE v.t = "date" -> PyStr(<<IsoDays[v.i]>>)
      [] v.t = "datetime" ->
            PyStr(<<IsoDays[v.i \div 2], " ", IsoTimes[(v.i % 2) + 1]>>)
      [] OTHER -> v

\* dateutil.parser.parse on an ISO date, or an ISO date, a space and a time
dateutil_parse(v) ==
    IF /\ v.t = "str"
       /\ Len(v.s) \in {1, 3}
       /\ \E d \in 1..Len(IsoDays) : IsoDays[d] = v.s[1]
       /\ Len(v.s) = 3 => v.s[2] = " " /\ \E h \in 1..Len(IsoTimes) : IsoTimes[h] = v.s[3]
    THEN LET d == CHOOSE d \in 1..Len(IsoDays) : IsoDays[d] = v.s[1]
             h == IF Len(v.s) = 1 THEN 0
                  ELSE (CHOOSE h \in 1..Len(IsoTimes) : IsoTimes[h] = v.s[3]) - 1
         IN PyDateTime(d, h)
    ELSE Raised("ParserError")

\* datetime.date()
date_of(v) == IF IsRaised(v) THEN v ELSE PyDate(v.i \div 2)

\* int(value) and float(value)
numeric(t, v) ==
    CASE v.t \in {"int", "bool"} -> [t |-> t, i |-> v.i, s |-> <<>>]
      [] v.t = "float" -> [t |-> t, i |-> v.i, s |-> <<>>]
      [] v.t = "str" -> Raised("ValueError")
      [] OTHER -> Raised("TypeError")

value_to_type_date_first(value, t) ==
    IF value = None THEN value
    ELSE IF issubclass(t, "int") THEN numeric("int", value)
    ELSE IF issubclass(t, "float") THEN numeric("float", value)
    ELSE IF issubclass(t, "str") THEN
        (IF value.t = "str" THEN value
         ELSE IF value.t = "bytes" THEN [value EXCEPT !.t = "str"]
         ELSE PyStr(<<ToString(value.i)>>))
    ELSE IF issubclass(t, "bytes") THEN
        (IF value.t = "bytes" THEN value
         ELSE IF value.t = "str" THEN [value EXCEPT !.t = "bytes"]
         ELSE Raised("TypeError"))
    ELSE IF issubclass(t, "date") THEN date_of(dateutil_parse(value))
    ELSE IF issubclass(t, "datetime") THEN dateutil_parse(value)
    ELSE None

value_to_type(value, t) ==
    IF value = None THEN value
    ELSE IF issubclass(t, "int") THEN numeric("int", value)
    ELSE IF issubclass(t, "float") THEN numeric("float", value)
    ELSE IF issubclass(t, "str") THEN
        (IF value.t = "str" THEN value
         ELSE IF value.t = "bytes" THEN [value EXCEPT !.t = "str"]
         ELSE PyStr(<<ToString(value.i)>>))
    ELSE IF issubclass(t, "bytes") THEN
        (IF value.t = "bytes" THEN value
         ELSE IF value.t = "str" THEN [value EXCEPT !.t = "bytes"]
         ELSE Raised("TypeError"))
    ELSE IF issubclass(t, "datetime") THEN dateutil_parse(value)
    ELSE IF issubclass(t, "date") THEN date_of(dateutil_parse(value))
    ELSE None

----------------------------------------------------------------------------
(* The store behind the connection: one fts4 table, rowid -> column values *)

\* the SQL tokens of one lexeme of a statement's text
Lex(x) ==
    CASE x = "CREATE VIRTUAL TABLE IF NOT EXISTS " ->
            <<"CREATE", "VIRTUAL", "TABLE", "IF", "NOT", "EXISTS">>
      [] x = " USING fts4" -> <<"USING", "fts4">>
      [] x = "INSERT INTO " -> <<"INSERT", "INTO">>
      [] x = " VALUES " -> <<"VALUES">>
      [] x = "UPDATE " -> <<"UPDATE">>
      [] x = " = " -> <<"=">>
      [] x = " WHERE rowid = " -> <<"WHERE", "rowid", "=">>
      [] x = "SELECT " -> <<"SELECT">>
      [] x = " FROM " -> <<"FROM">>
      [] x = ", " -> <<",">>
      [] x = " " -> <<>>
      [] OTHER -> <<x>>

RECURSIVE Tokens(_)
Tokens(sql) == IF sql = <<>> THEN <<>> ELSE Lex(Head(sql)) \o Tokens(Tail(sql))

RECURSIVE QuotedNames(_)
\* the double-quoted identifiers of a token sequence, in order
QuotedNames(toks) ==
    IF Len(toks) < 3 THEN <<>>
    ELSE IF toks[1] = "\"" /\ toks[3] = "\""
         THEN <<toks[2]>> \o QuotedNames(SubSeq(toks, 4, Len(toks)))
         ELSE QuotedNames(Tail(toks))

QId(n) == <<"\"", n, "\"">>

RECURSIVE CommaSep(_)
CommaSep(items) ==
    IF items = <<>> THEN <<>>
    ELSE IF Len(items) = 1 THEN items[1]
    ELSE items[1] \o <<",">> \o CommaSep(Tail(items))

IdList(cols) == CommaSep([k \in 1..Len(cols) |-> QId(cols[k])])
Marks(n) == CommaSep([k \in 1..n |-> <<"?">>])

\* the statements the store's grammar accepts
GCreatePrefix(t) ==
    <<"CREATE", "VIRTUAL", "TABLE", "IF", "NOT", "EXISTS">> \o QId(t)
        \o <<"USING", "fts4", "(">>
GInsert(t, cols, n) ==
    <<"INSERT", "INTO">> \o QId(t) \o <<"(">> \o IdList(cols)
        \o <<")", "VALUES", "(">> \o Marks(n) \o <<")">>
GUpdate(t, cols, n) ==
    <<"UPDATE">> \o QId(t) \o <<"SET", "(">> \o IdList(cols)
        \o <<")", "=", "(">> \o Marks(n) \o <<")", "WHERE", "rowid", "=", "?">>
GSelect(t, cols) == <<"SELECT">> \o IdList(cols) \o <<"FROM">> \o QId(t)

\* the class the record operations run on
ModelName == "note"
ModelFields ==
    <<[name |-> "title", typ |-> "str"], [name |-> "count", typ |-> "int"],
      [name |-> "day", typ |-> "date"], [name |-> "at", typ |-> "datetime"]>>
FieldNames == {ModelFields[k].name : k \in 1..Len(ModelFields)}
FieldType(f) ==
    ModelFields[CHOOSE k \in 1..Len(ModelFields) : ModelFields[k].name = f].typ

Max(S) == CHOOSE x \in S : \A y \in S : y <= x

Ok(st, lastrowid, result) ==
    [exc |-> "none", st |-> st, lastrowid |-> lastrowid, result |-> result]
Fail(st, exc) == [exc |-> exc, st |-> st, lastrowid |-> 0, result |-> <<>>]

\* conn.execute(sql, params) on the store st = [created, rows]
store_execute(st, sql, params) ==
    LET toks == Tokens(sql)
        names == QuotedNames(toks)
        marks == CountOf("?", toks)
        t == names[1]
        cols == Tail(names)
        known == \A k \in 1..Len(cols) : cols[k] \in FieldNames \cup {"rowid"}
    IN
    IF toks = <<>> \/ names = <<>> THEN Fail(st, "OperationalError")
    ELSE IF toks[1] = "CREATE" THEN
        IF /\ Len(toks) > Len(GCreatePrefix(t))
           /\ SubSeq(toks, 1, Len(GCreatePrefix(t))) = GCreatePrefix(t)
           /\ toks[Len(toks)] = ")"
        THEN Ok([st EXCEPT !.created = TRUE], 0, <<>>)
        ELSE Fail(st, "OperationalError")
    ELSE IF toks[1] = "INSERT" THEN
        IF /\ toks = GInsert(t, cols, marks)
           /\ cols # <<>> /\ marks = Len(cols) /\ marks = Len(params)
           /\ st.created /\ t = ModelName /\ known
        THEN LET id == IF DOMAIN st.rows = {} THEN 1 ELSE Max(DOMAIN st.rows) + 1
                 row == [f \in FieldNames |->
                            IF \E k \in 1..Len(cols) : cols[k] = f
                            THEN adapt(params[CHOOSE k \in 1..Len(cols) : cols[k] = f])
                            ELSE None]
             IN Ok([st EXCEPT !.rows = (id :> row) @@ st.rows], id, <<>>)
        ELSE Fail(st, "OperationalError")
    ELSE IF toks[1] = "UPDATE" THEN
        IF /\ toks = GUpdate(t, cols, marks - 1)
           /\ cols # <<>> /\ marks - 1 = Len(cols) /\ marks = Len(params)
           /\ st.created /\ t = ModelName /\ known
        THEN LET idv == params[Len(params)]
                 upd(row) == [f \in FieldNames |->
                                 IF \E k \in 1..Len(cols) : cols[k] = f
                                 THEN adapt(params[CHOOSE k \in 1..Len(cols) : cols[k] = f])
                                 ELSE row[f]]
             IN Ok([st EXCEPT !.rows =
                       [id \in DOMAIN st.rows |->
                           IF idv.t = "int" /\ idv.i = id
                           THEN upd(st.rows[id]) ELSE st.rows[id]]], 0, <<>>)
        ELSE Fail(st, "OperationalError")
    ELSE IF toks[1] = "SELECT" THEN
        IF /\ toks = GSelect(names[Len(names)], SubSeq(names, 1, Len(names) - 1))
           /\ Len(names) >= 2 /\ Len(params) = 0
           /\ st.created /\ names[Len(names)] = ModelName
           /\ \A k \in 1..(Len(names) - 1) : names[k] \in FieldNames \cup {"rowid"}
        THEN LET n == Cardinality(DOMAIN st.rows)
                 ids == CHOOSE q \in [1..n -> DOMAIN st.rows] :
                            \A a, b \in 1..n : a < b => q[a] < q[b]
             IN Ok(st, 0,
                   [r \in 1..n |->
                       [c \in 1..(Len(names) - 1) |->
                           IF names[c] = "rowid" THEN PyInt(ids[r])
                           ELSE st.rows[ids[r]][names[c]]]])
        ELSE Fail(st, "OperationalError")
    ELSE Fail(st, "OperationalError")

----------------------------------------------------------------------------
(* Model: a record of the class above, rec = [live, rowid, vals] *)

NoRec == [live |-> FALSE, rowid |-> None, vals |-> [f \in FieldNames |-> None]]

\* kwargs.get(key)
kwargs_get(kwargs, key) ==
    IF \E k \in 1..Len(kwargs) : kwargs[k].key = key
    THEN kwargs[CHOOSE k \in 1..Len(kwargs) : kwargs[k].key = key].value
    ELSE None

setattr(obj, key, value) ==
    IF key = "rowid" THEN [obj EXCEPT !.rowid = value]
    ELSE [obj EXCEPT !.vals[key] = value]

RECURSIVE init_loop_accepting(_, _)
init_loop_accepting(obj, kwargs) ==
    IF kwargs = <<>> THEN [exc |-> "none", obj |-> obj]
    ELSE init_loop_accepting(
             IF Head(kwargs).key \in FieldNames \/ Head(kwargs).key = "rowid"
             THEN setattr(obj, Head(kwargs).key, Head(kwargs).value)
             ELSE obj,
             Tail(kwargs))

RECURSIVE init_loop(_, _)
\* the loop over kwargs.items() of __init__, on the object built so far
init_loop(obj, kwargs) ==
    IF kwargs = <<>> THEN [exc |-> "none", obj |-> obj]
    ELSE IF Head(kwargs).key \in FieldNames \/ Head(kwargs).key = "rowid"
         THEN init_loop(setattr(obj, Head(kwargs).key, Head(kwargs).value),
                        Tail(kwargs))
         ELSE [exc |-> "ValueError", obj |-> obj]

Model_init(kwargs) ==
    init_loop([live |-> TRUE, rowid |-> kwargs_get(kwargs, "rowid"),
               vals |-> [f \in FieldNames |-> None]],
              kwargs)

\* self[i], i counted from 0
Model_getitem(obj, i) == obj.vals[ModelFields[i + 1].name]
\* len(self)
Model_len(obj) == Len(ModelFields)
\* `for val in self`: self[0], self[1], ... until IndexError
Model_values(obj) == [k \in 1..Model_len(obj) |-> Model_getitem(obj, k - 1)]

FieldIdentifiers == [k \in 1..Len(ModelFields) |-> Identifier(<<ModelFields[k].name>>)]

insert_sql(obj) ==
    SQLBuilder_build(
        AddAll(SQLBuilder_init(<<"INSERT INTO ">>),
               <<Identifier(<<ModelName>>),
                 PList(FieldIdentifiers),
                 RawSQL(<<" VALUES ">>),
                 PList([k \in 1..Model_len(obj) |-> Literal(Model_values(obj)[k])])>>))

update_sql(obj) ==
    SQLBuilder_build(
        AddAll(SQLBuilder_init(<<"UPDATE ">>),
               <<Identifier(<<ModelName>>),
                 PList(FieldIdentifiers),
                 RawSQL(<<" = ">>),
                 PList([k \in 1..Model_len(obj) |-> Literal(Model_values(obj)[k])]),
                 RawSQL(<<" WHERE rowid = ">>),
                 Literal(obj.rowid)>>))

QueryFields == <<"rowid">> \o [k \in 1..Len(ModelFields) |-> ModelFields[k].name]

query_sql ==
    SQLBuilder_build(
        AddAll(SQLBuilder_init(<<"SELECT ">>),
               <<List([k \in 1..Len(QueryFields) |-> Identifier(<<QueryFields[k]>>)]),
                 RawSQL(<<" FROM ">>),
                 Identifier(<<ModelName>>)>>))

Model_create_table(st) ==
    LET q == create_table_sql(<<ModelName>>,
                 [k \in 1..Len(ModelFields) |->
                     [name |-> <<ModelFields[k].name>>, typ |-> ModelFields[k].typ]])
    IN store_execute(st, q.sql, q.params)

Model_insert_keeping_rowid(obj, st) ==
    LET q == insert_sql(obj)
        r == store_execute(st, q.sql, q.params)
    IN [exc |-> r.exc, st |-> r.st, obj |-> obj]

Model_insert(obj, st) ==
    LET q == insert_sql(obj)
        r == store_execute(st, q.sql, q.params)
    IN [exc |-> r.exc, st |-> r.st,
        obj |-> IF r.exc = "none" THEN [obj EXCEPT !.rowid = PyInt(r.lastrowid)]
                ELSE obj]

Model_update(obj, st) ==
    LET q == update_sql(obj)
        r == store_execute(st, q.sql, q.params)
    IN [exc |-> r.exc, st |-> r.st, obj |-> obj]

\* bool(value)
Truthy(v) ==
    CASE v.t = "None" -> FALSE
      [] v.t \in {"int", "float", "bool"} -> v.i # 0
      [] v.t \in {"str", "bytes"} -> v.s # <<>>
      [] OTHER -> TRUE

\* the branch save() takes
save_path(obj) == IF Truthy(obj.rowid) THEN "update" ELSE "insert"

Model_save(obj, st) ==
    IF save_path(obj) = "update" THEN Model_update(obj, st) ELSE Model_insert(obj, st)

RECURSIVE from_row_loop(_, _, _)
\* the loop over zip(fields, row) of from_row, on the instance built so far
from_row_loop(inst, fields, row) ==
    IF fields = <<>> \/ row = <<>> THEN [exc |-> "none", obj |-> inst]
    ELSE LET field == Head(fields)
             value == IF field \in FieldNames
                      THEN value_to_type(Head(row), FieldType(field))
                      ELSE Head(row)
         IN IF IsRaised(value) THEN [exc |-> value.s[1], obj |-> inst]
            ELSE from_row_loop(setattr(inst, field, value), Tail(fields), Tail(row))

from_row(fields, row) == from_row_loop(Model_init(<<>>).obj, fields, row)

\* list(cls.query()): every record the generator yields, or the exception
\* that ends it
Model_query(st) ==
    LET r == store_execute(st, query_sql.sql, query_sql.params)
        got == [k \in 1..Len(r.result) |-> from_row(QueryFields, r.result[k])]
    IN IF r.exc # "none" THEN [exc |-> r.exc, result |-> <<>>]
       ELSE IF \E k \in 1..Len(got) : got[k].exc # "none"
       THEN [exc |-> got[CHOOSE k \in 1..Len(got) : got[k].exc # "none"].exc,
             result |-> <<>>]
       ELSE [exc |-> "none", result |-> [k \in 1..Len(got) |-> got[k].obj]]

----------------------------------------------------------------------------
(* The record operations as steps *)

MaxRows == 2

KV(k, v) == [key |-> k, value |-> v]

\* the keyword arguments records are constructed with: every value is None or
\* an instance of its field's declared type
KwargsPool ==
    {<<KV("title", PyStr(<<"a">>)), KV("count", PyInt(3)), KV("day", PyDate(1))>>,
     <<KV("count", PyInt(4)), KV("day", PyDateTime(2, 1)), KV("at", PyDateTime(1, 1)),
       KV("title", None)>>,
     <<KV("rowid", PyInt(1)), KV("title", PyStr(<<"a">>)), KV("count", PyInt(9)),
       KV("day", PyDate(1))>>,
     <<KV("rowid", PyInt(0)), KV("title", PyStr(<<"z">>))>>,
     <<KV("title", PyStr(<<"a">>)), KV("bogus", PyInt(1)), KV("count", PyInt(3))>>,
     <<KV("rowids", PyInt(1))>>}

\* attribute assignments made on a record in hand
Assignments == {KV("count", PyInt(9))}

store == [created |-> created, rows |-> rows]

Call(op, exc, path, kwargs) ==
    [op |-> op, exc |-> exc, path |-> path, rowid0 |-> rec.rowid,
     rows0 |-> rows, kwargs |-> kwargs]

NoCall ==
    [op |-> "none", exc |-> "none", path |-> "none", rowid0 |-> None,
     rows0 |-> <<>>, kwargs |-> <<>>]

CreateTable ==
    \E r \in {Model_create_table(store)} :
        /\ created' = r.st.created
        /\ rows' = r.st.rows
        /\ last' = Call("create_table", r.exc, "none", <<>>)
        /\ queried' = <<>>
        /\ UNCHANGED rec

Construct ==
    \E kwargs \in KwargsPool :
        \E r \in {Model_init(kwargs)} :
            /\ rec' = IF r.exc = "none" THEN r.obj ELSE rec
            /\ last' = Call("init", r.exc, "none", kwargs)
            /\ queried' = <<>>
            /\ UNCHANGED <<created, rows>>

SetAttr ==
    \E a \in Assignments :
        /\ rec.live
        /\ rec' = setattr(rec, a.key, a.value)
        /\ last' = Call("setattr", "none", "none", <<a>>)
        /\ queried' = <<>>
        /\ UNCHANGED <<created, rows>>

Insert ==
    /\ rec.live
    /\ Cardinality(DOMAIN rows) < MaxRows
    /\ \E r \in {Model_insert(rec, store)} :
        /\ rec' = r.obj
        /\ created' = r.st.created
        /\ rows' = r.st.rows
        /\ last' = Call("insert", r.exc, "insert", <<>>)
        /\ queried' = <<>>

Update ==
    /\ rec.live
    /\ \E r \in {Model_update(rec, store)} :
        /\ rec' = r.obj
        /\ created' = r.st.created
        /\ rows' = r.st.rows
        /\ last' = Call("update", r.exc, "update", <<>>)
        /\ queried' = <<>>

Save ==
    /\ rec.live
    /\ save_path(rec) = "insert" => Cardinality(DOMAIN rows) < MaxRows
    /\ \E r \in {Model_save(rec, store)} :
        /\ rec' = r.obj
        /\ created' = r.st.created
        /\ rows' = r.st.rows
        /\ last' = Call("save", r.exc, save_path(rec), <<>>)
        /\ queried' = <<>>

Query ==
    \E r \in {Model_query(store)} :
        /\ queried' = r.result
        /\ last' = Call("query", r.exc, "none", <<>>)
        /\ UNCHANGED <<created, rows, rec>>

----------------------------------------------------------------------------
(* get_conn: the cached connection.  conns[id] = [st, db] is connection id: *)
(* the file it was opened on and its state, "open", "closed" (close() was   *)
(* called on it) or "broken" (its statements fail with a sqlite3 error that *)
(* is not a ProgrammingError).  sqlite3.connect is taken to succeed: the    *)
(* store is reachable.                                                      *)

NoConn == 0
MaxConns == 3

\* the db option of section noted in the configuration file, if it is set
DbSettings == {"unset", "a.db", "b.db"}
\* get_config._conf before the first get_config()
Unread == "unread"

\* get_config(): the configuration read once and kept
get_config(cfg) == IF cfg.conf = Unread THEN [cfg EXCEPT !.conf = cfg.file] ELSE cfg

\* get_config().get('noted', 'db', fallback='journal.db')
db_file(cfg) == IF cfg.conf = "unset" THEN "journal.db" ELSE cfg.conf

\* how get_conn._conn.execute('select 1') ends on a connection in state st
probe(st) ==
    CASE st = "open" -> "ok"
      [] st = "closed" -> "ProgrammingError"
      [] st = "broken" -> "OperationalError"

\* bool(get_conn._conn)
HasConn(c) == c # NoConn

\* the second if of get_conn, with get_conn._conn = c
get_conn_open(c, cs, cfg, p) ==
    IF ~HasConn(c)
    THEN LET cfg1 == get_config(cfg)
         IN [exc |-> "none", cached |-> Len(cs) + 1,
             conns |-> Append(cs, [st |-> "open", db |-> db_file(cfg1)]),
             config |-> cfg1, returned |-> Len(cs) + 1, probe |-> p, opened |-> 1]
    ELSE [exc |-> "none", cached |-> c, conns |-> cs, config |-> cfg,
          returned |-> c, probe |-> p, opened |-> 0]

get_conn_keeping_cache(c, cs, cfg) ==
    LET p == IF HasConn(c) THEN probe(cs[c].st) ELSE "none"
    IN IF p = "OperationalError"
       THEN [exc |-> p, cached |-> c, conns |-> cs, config |-> cfg,
             returned |-> NoConn, probe |-> p, opened |-> 0]
       ELSE get_conn_open(c, cs, cfg, p)

\* get_conn() with get_conn._conn = c, the connections cs and the
\* configuration cfg
get_conn(c, cs, cfg) ==
    LET p == IF HasConn(c) THEN probe(cs[c].st) ELSE "none"
    IN IF p \notin {"none", "ok", "ProgrammingError"}
       THEN [exc |-> p, cached |-> c, conns |-> cs, config |-> cfg,
             returned |-> NoConn, probe |-> p, opened |-> 0]
       ELSE get_conn_open(IF p = "ProgrammingError" THEN NoConn ELSE c, cs, cfg, p)

NoAccess ==
    [done |-> FALSE, exc |-> "none", returned |-> NoConn, probe |-> "none",
     opened |-> 0, cached0 |-> NoConn]

GetConn ==
    \E r \in {get_conn(cached, conns, config)} :
        /\ Len(r.conns) <= MaxConns
        /\ cached' = r.cached
        /\ conns' = r.conns
        /\ config' = r.config
        /\ access' = [done |-> TRUE, exc |-> r.exc, returned |-> r.returned,
                      probe |-> r.probe, opened |-> r.opened, cached0 |-> cached]

\* a holder of connection id calls close() on it
CloseConn ==
    \E id \in 1..Len(conns) :
        /\ conns[id].st # "closed"
        /\ conns' = [conns EXCEPT ![id].st = "closed"]
        /\ access' = NoAccess
        /\ UNCHANGED <<cached, config>>

\* a failure leaves connection id unusable without closing it
BreakConn ==
    \E id \in 1..Len(conns) :
        /\ conns[id].st = "open"
        /\ conns' = [conns EXCEPT ![id].st = "broken"]
        /\ access' = NoAccess
        /\ UNCHANGED <<cached, config>>

\* the user edits the configuration file
EditConfig ==
    \E f \in DbSettings :
        /\ f # config.file
        /\ config' = [config EXCEPT !.file = f]
        /\ access' = NoAccess
        /\ UNCHANGED <<cached, conns>>

----------------------------------------------------------------------------
(* split_entry: an entry is a sequence of characters *)

MAX_TITLE_LEN == 80
Ellipsis == "..."   \* the one character U+2026
Whitespace == {" ", "\n", "\r", "\t"}

RECURSIVE lstrip(_)
lstrip(x) == IF x # <<>> /\ Head(x) \in Whitespace THEN lstrip(Tail(x)) ELSE x
RECURSIVE rstrip(_)
rstrip(x) ==
    IF x # <<>> /\ x[Len(x)] \in Whitespace THEN rstrip(SubSeq(x, 1, Len(x) - 1)) ELSE x
strip(x) == rstrip(lstrip(x))

RECURSIVE title_loop(_, _, _)
\* the for loop over the characters of entry, from its k-th character
title_loop(e, k, title) ==
    IF k > Len(e) THEN title
    ELSE IF e[k] \in {"\n", "\r"} THEN title
    ELSE IF Len(title) + 1 >= MAX_TITLE_LEN THEN title \o <<e[k], Ellipsis>>
    ELSE title_loop(e, k + 1, Append(title, e[k]))

split_entry(x) ==
    LET e == lstrip(x)
        title == title_loop(e, 1, <<>>)
    IN [title |-> title, body |-> strip(SubSeq(e, Len(title) + 1, Len(e)))]

\* how far past MAX_TITLE_LEN the first line of an entry runs
MaxOver == 2

Leads == {<<>>, <<" ">>, <<"\n", " ">>}
Tails ==
    {<<>>, <<"b">>, <<"\n", "b">>, <<" ", "b">>, <<"b", "\n", "c", " ">>,
     <<"\r", "\n", "b", "c">>}
Entries ==
    {lead \o [k \in 1..n |-> "a"] \o tail :
        lead \in Leads, n \in 0..(MAX_TITLE_LEN + MaxOver), tail \in Tails}

NotSplit == [done |-> FALSE, title |-> <<>>, body |-> <<>>]

SplitEntry ==
    /\ ~split.done
    /\ split' = [done |-> TRUE] @@ split_entry(entry)
    /\ UNCHANGED entry

RECURSIVE LiteralsOf(_)
RECURSIVE LiteralsOfAll(_)
\* the Literal values of a fragment, left to right
LiteralsOf(f) ==
    CASE f.kind = "lit" -> <<f.val>>
      [] f.kind \in {"list", "builder"} -> LiteralsOfAll(f.items)
      [] OTHER -> <<>>
LiteralsOfAll(fs) ==
    IF fs = <<>> THEN <<>> ELSE LiteralsOf(Head(fs)) \o LiteralsOfAll(Tail(fs))

RECURSIVE TextsOf(_)
TextsOf(fs) ==
    IF fs = <<>> THEN <<>> ELSE Build(Head(fs)).sql \o TextsOf(Tail(fs))
RECURSIVE ParamsOf(_)
ParamsOf(fs) ==
    IF fs = <<>> THEN <<>> ELSE Build(Head(fs)).params \o ParamsOf(Tail(fs))

\* C5: build() returns the initial text followed by the rendered texts of the
\* added fragments in append order, and their parameters flattened in the same
\* order; the parameters are exactly the Literal values left to right, one "?"
\* each, and no lexeme of a Literal value occurs in the text.
C5_BuildConcatenatesInOrder ==
    built.done =>
        /\ built.sql = builder.sql_buffer[1] \o TextsOf(added)
        /\ built.params = ParamsOf(added)
        /\ built.params = LiteralsOfAll(added)
        /\ CountOf("?", built.sql) = Len(built.params)
        /\ \A k \in 1..Len(built.params) :
               Range(built.params[k].s) \cap Range(built.sql) = {}

C5_Witness ==
    /\ built.done
    /\ Len(added) = MaxAdds
    /\ Len(built.params) >= 4
    /\ \E k \in 1..Len(added) : added[k].kind = "list" /\ Len(added[k].items) = 3
    /\ \E k \in 1..Len(added) : added[k].kind = "ident"

----------------------------------------------------------------------------
(* Claims about the record model *)

Stored(obj) == [f \in FieldNames |-> adapt(obj.vals[f])]

\* C1: on a store whose table exists, save() takes the update path when the
\* record carries an identity (rowid is not None) and the insert path
\* otherwise, and a save() of a record that carries an identity leaves the
\* number of stored rows as it was.
C1_SaveDispatchesOnIdentity ==
    (last.op = "save" /\ created) =>
        /\ last.path = (IF last.rowid0 # None THEN "update" ELSE "insert")
        /\ last.rowid0 # None =>
               Cardinality(DOMAIN rows) = Cardinality(DOMAIN last.rows0)

\* C2: after a successful insert() the record's rowid is the rowid of the one
\* row the store gained, that row holds the record's values, and save() of the
\* record would take the update path.
C2_InsertAssignsIdentity ==
    (last.path = "insert" /\ last.exc = "none") =>
        /\ rec.rowid # None
        /\ rec.rowid.t = "int"
        /\ DOMAIN rows \ DOMAIN last.rows0 = {rec.rowid.i}
        /\ rows[rec.rowid.i] = Stored(rec)
        /\ \A id \in DOMAIN last.rows0 : rows[id] = last.rows0[id]
        /\ save_path(rec) = "update"

C2_Witness ==
    /\ last.op = "insert"
    /\ last.exc = "none"
    /\ rec.rowid = PyInt(2)
    /\ DOMAIN last.rows0 = {1}

\* what a supplied value is at the precision of the declared type
AtPrecision(v, t) == IF t = "date" /\ v.t = "datetime" THEN PyDate(v.i \div 2) ELSE v

\* C3: a query() that follows a save() that completed yields a record with the
\* saved record's rowid, and every field of it equals the saved value at the
\* precision of the field's type, None staying None.
C3_RoundTrip ==
    [][(last.op = "save" /\ last.exc = "none" /\ last'.op = "query") =>
          /\ last'.exc = "none"
          /\ \E k \in 1..Len(queried') : queried'[k].rowid = rec.rowid
          /\ \A k \in 1..Len(queried') :
                queried'[k].rowid = rec.rowid =>
                    \A f \in FieldNames :
                        queried'[k].vals[f] = AtPrecision(rec.vals[f], FieldType(f))]_vars

C3_Witness ==
    /\ last.op = "query"
    /\ Len(queried) = 2
    /\ rec.rowid = PyInt(2)
    /\ rec.vals["day"] = PyDateTime(2, 1)
    /\ queried[2].rowid = rec.rowid
    /\ queried[2].vals["day"] = PyDate(2)
    /\ queried[2].vals["at"] = PyDateTime(1, 1)
    /\ queried[2].vals["title"] = None
    /\ queried[2].vals["count"] = PyInt(9)

\* C4: update() of a record whose rowid names a stored row succeeds, leaves
\* that row holding the record's values and every other row as it was.
C4_UpdateRewritesItsRow ==
    (last.op = "update" /\ last.rowid0.t = "int" /\ last.rowid0.i \in DOMAIN last.rows0) =>
        /\ last.exc = "none"
        /\ rows = [last.rows0 EXCEPT ![last.rowid0.i] = Stored(rec)]

\* C9: the constructor raises exactly when a keyword is neither a declared
\* field nor rowid; otherwise every field holds its keyword's value, or None
\* without one, and so does rowid.
C9_InitRejectsUnknownFields ==
    last.op = "init" =>
        /\ last.exc \in {"none", "ValueError"}
        /\ last.exc = "ValueError" <=>
              \E k \in 1..Len(last.kwargs) :
                  last.kwargs[k].key \notin FieldNames \cup {"rowid"}
        /\ last.exc = "none" =>
              /\ rec.live
              /\ rec.rowid = kwargs_get(last.kwargs, "rowid")
              /\ \A f \in FieldNames : rec.vals[f] = kwargs_get(last.kwargs, f)

C9_Witness ==
    /\ last.op = "init"
    /\ last.exc = "ValueError"
    /\ last.kwargs[1].key = "title"
    /\ last.kwargs[2].key = "bogus"
    /\ rec.live
    /\ rec.rowid = PyInt(1)

----------------------------------------------------------------------------
(* Claims about the type mapping and create_table *)

\* the storage type name documented for each semantic type
DocumentedSqlType(t) ==
    CASE t = "int" -> "INTEGER"
      [] t = "float" -> "DOUBLE"
      [] t = "str" -> "TEXT"
      [] t = "bytes" -> "BLOB"
      [] t = "date" -> "DATE"
      [] t = "datetime" -> "DATETIME"

\* C6: type_to_sql_type maps each of the six semantic types to its own
\* storage type name; datetime gives DATETIME.
C6_TypeToSqlTypeTotal ==
    typ \in SemanticTypes => sql_type = DocumentedSqlType(typ)

Quoted(name) == <<"\"">> \o EscapeQuotes(name) \o <<"\"">>

RECURSIVE JoinComma(_)
JoinComma(texts) ==
    IF texts = <<>> THEN <<>>
    ELSE IF Len(texts) = 1 THEN texts[1]
    ELSE texts[1] \o <<", ">> \o JoinComma(Tail(texts))

\* a column as the documented statement shape has it: the quoted name, then a
\* space and the bare type name when the type resolves
DocumentedColumn(f) ==
    Quoted(f.name)
        \o (IF f.typ \in SemanticTypes THEN <<" ", DocumentedSqlType(f.typ)>>
            ELSE IF type_to_sql_type(f.typ) # NoSqlType
            THEN <<" ", type_to_sql_type(f.typ)>>
            ELSE <<>>)

\* C8 as stated: CREATE VIRTUAL TABLE IF NOT EXISTS "<name>" USING fts4 (...),
\* a space before the parenthesis, one column per field in declaration order,
\* each followed by its bare storage type name when its type resolves, and no
\* parameters.
C8_DocumentedCreateTableShape ==
    ddl.done =>
        /\ ddl.params = <<>>
        /\ ddl.sql =
              <<"CREATE VIRTUAL TABLE IF NOT EXISTS ">> \o Quoted(schema.name)
                  \o <<" USING fts4", " ", "(">>
                  \o JoinComma([k \in 1..Len(schema.fields) |->
                                   DocumentedColumn(schema.fields[k])])
                  \o <<")">>

\* a column as create_table writes it: the quoted name, then a space and the
\* quoted result of type_to_sql_type when there is one
WrittenColumn(f) ==
    Quoted(f.name)
        \o (IF type_to_sql_type(f.typ) # NoSqlType
            THEN <<" ">> \o Quoted(<<type_to_sql_type(f.typ)>>)
            ELSE <<>>)

\* C8 as amended: the parenthesis follows fts4 directly, one column per field
\* in declaration order, each a quoted identifier followed, when
\* type_to_sql_type names a type for it, by a space and that name as a quoted
\* identifier, and no parameters.
C8_CreateTableShape ==
    ddl.done =>
        /\ ddl.params = <<>>
        /\ ddl.sql =
              <<"CREATE VIRTUAL TABLE IF NOT EXISTS ">> \o Quoted(schema.name)
                  \o <<" USING fts4", "(">>
                  \o JoinComma([k \in 1..Len(schema.fields) |->
                                   WrittenColumn(schema.fields[k])])
                  \o <<")">>

C8_Witness ==
    /\ ddl.done
    /\ schema.name = <<"my", "\"", "t">>
    /\ Len(schema.fields) = 2
    /\ schema.fields[1].typ = "list"
    /\ schema.fields[2].typ = "datetime"

----------------------------------------------------------------------------
(* Claims about get_conn *)

----------------------------------------------------------------------------
(* Claims about split_entry *)

LineBreaks(e) == {k \in 1..Len(e) : e[k] \in {"\n", "\r"}}
\* the length of the prefix of e that ends before its first line break or
\* after MAX_TITLE_LEN characters, whichever comes first
TitlePrefixLen(e) ==
    LET line == IF LineBreaks(e) = {} THEN Len(e)
                ELSE (CHOOSE k \in LineBreaks(e) : \A j \in LineBreaks(e) : k <= j) - 1
    IN IF line <= MAX_TITLE_LEN THEN line ELSE MAX_TITLE_LEN

WithoutEllipsis(title) ==
    IF title # <<>> /\ title[Len(title)] = Ellipsis
    THEN SubSeq(title, 1, Len(title) - 1) ELSE title

\* C10: the title without its ellipsis is the prefix of the left-stripped
\* entry up to the first line break or MAX_TITLE_LEN characters, and the body
\* is the stripped remainder after exactly that prefix.
C10_SplitEntryLosesNothing ==
    split.done =>
        LET e == lstrip(entry)
            n == TitlePrefixLen(e)
        IN /\ WithoutEllipsis(split.title) = SubSeq(e, 1, n)
           /\ split.body = strip(SubSeq(e, n + 1, Len(e)))

----------------------------------------------------------------------------
(* Specifications *)

NextBuilder ==
    \/ Add /\ UNCHANGED <<ddlVars, storeVars, connVars, splitVars>>
    \/ AddSql /\ UNCHANGED <<ddlVars, storeVars, connVars, splitVars>>
    \/ AddIdentifier /\ UNCHANGED <<ddlVars, storeVars, connVars, splitVars>>
    \/ AddLiteral /\ UNCHANGED <<ddlVars, storeVars, connVars, splitVars>>
    \/ DoBuild /\ UNCHANGED <<ddlVars, storeVars, connVars, splitVars>>

NextDDL ==
    \/ TypeToSqlType /\ UNCHANGED <<builderVars, storeVars, connVars, splitVars>>
    \/ BuildCreateTable /\ UNCHANGED <<builderVars, storeVars, connVars, splitVars>>

NextStore ==
    \/ CreateTable /\ UNCHANGED <<builderVars, ddlVars, connVars, splitVars>>
    \/ Construct /\ UNCHANGED <<builderVars, ddlVars, connVars, splitVars>>
    \/ SetAttr /\ UNCHANGED <<builderVars, ddlVars, connVars, splitVars>>
    \/ Insert /\ UNCHANGED <<builderVars, ddlVars, connVars, splitVars>>
    \/ Update /\ UNCHANGED <<builderVars, ddlVars, connVars, splitVars>>
    \/ Save /\ UNCHANGED <<builderVars, ddlVars, connVars, splitVars>>
    \/ Query /\ UNCHANGED <<builderVars, ddlVars, connVars, splitVars>>

NextConn ==
    \/ GetConn /\ UNCHANGED <<builderVars, ddlVars, storeVars, splitVars>>
    \/ CloseConn /\ UNCHANGED <<builderVars, ddlVars, storeVars, splitVars>>
    \/ BreakConn /\ UNCHANGED <<builderVars, ddlVars, storeVars, splitVars>>
    \/ EditConfig /\ UNCHANGED <<builderVars, ddlVars, storeVars, splitVars>>

NextSplit ==
    SplitEntry /\ UNCHANGED <<builderVars, ddlVars, storeVars, connVars>>

\* a new SQLBuilder(sql); the other components at rest
InitBuilder ==
    /\ builder \in {SQLBuilder_init(sql) : sql \in InitialSqls}
    /\ added = <<>>
    /\ built = NotBuilt
    /\ typ = "int"
    /\ sql_type = type_to_sql_type("int")
    /\ schema = NoSchema
    /\ ddl = NoDDL
    /\ created = FALSE
    /\ rows = <<>>
    /\ rec = NoRec
    /\ last = NoCall
    /\ queried = <<>>
    /\ cached = NoConn
    /\ conns = <<>>
    /\ config = [file |-> "unset", conf |-> Unread]
    /\ access = NoAccess
    /\ entry = <<>>
    /\ split = NotSplit

SpecBuilder == InitBuilder /\ [][NextBuilder]_vars

\* no create_table call yet; the other components at rest
InitDDL ==
    /\ builder = SQLBuilder_init(<<>>)
    /\ added = <<>>
    /\ built = NotBuilt
    /\ typ = "int"
    /\ sql_type = type_to_sql_type("int")
    /\ schema = NoSchema
    /\ ddl = NoDDL
    /\ created = FALSE
    /\ rows = <<>>
    /\ rec = NoRec
    /\ last = NoCall
    /\ queried = <<>>
    /\ cached = NoConn
    /\ conns = <<>>
    /\ config = [file |-> "unset", conf |-> Unread]
    /\ access = NoAccess
    /\ entry = <<>>
    /\ split = NotSplit

SpecDDL == InitDDL /\ [][NextDDL]_vars

\* an empty store without its table, no record in hand; the other components at rest
InitStore ==
    /\ builder = SQLBuilder_init(<<>>)
    /\ added = <<>>
    /\ built = NotBuilt
    /\ typ = "int"
    /\ sql_type = type_to_sql_type("int")
    /\ schema = NoSchema
    /\ ddl = NoDDL
    /\ created = FALSE
    /\ rows = <<>>
    /\ rec = NoRec
    /\ last = NoCall
    /\ queried = <<>>
    /\ cached = NoConn
    /\ conns = <<>>
    /\ config = [file |-> "unset", conf |-> Unread]
    /\ access = NoAccess
    /\ entry = <<>>
    /\ split = NotSplit

SpecStore == InitStore /\ [][NextStore]_vars

\* no connection yet, the configuration file unread; the other components at rest
InitConn ==
    /\ builder = SQLBuilder_init(<<>>)
    /\ added = <<>>
    /\ built = NotBuilt
    /\ typ = "int"
    /\ sql_type = type_to_sql_type("int")
    /\ schema = NoSchema
    /\ ddl = NoDDL
    /\ created = FALSE
    /\ rows = <<>>
    /\ rec = NoRec
    /\ last = NoCall
    /\ queried = <<>>
    /\ cached = NoConn
    /\ conns = <<>>
    /\ config \in {[file |-> f, conf |-> Unread] : f \in DbSettings}
    /\ access = NoAccess
    /\ entry = <<>>
    /\ split = NotSplit

SpecConn == InitConn /\ [][NextConn]_vars

\* an entry to split; the other components at rest
InitSplit ==
    /\ builder = SQLBuilder_init(<<>>)
    /\ added = <<>>
    /\ built = NotBuilt
    /\ typ = "int"
    /\ sql_type = type_to_sql_type("int")
    /\ schema = NoSchema
    /\ ddl = NoDDL
    /\ created = FALSE
    /\ rows = <<>>
    /\ rec = NoRec
    /\ last = NoCall
    /\ queried = <<>>
    /\ cached = NoConn
    /\ conns = <<>>
    /\ config = [file |-> "unset", conf |-> Unread]
    /\ access = NoAccess
    /\ entry \in Entries
    /\ split = NotSplit

SpecSplit == InitSplit /\ [][NextSplit]_vars

====
